---- MODULE Spec2Model ----
(***************************************************************************)
(* seqtools.common: the index-validation protocol (basic_getitem,          *)
(* basic_setitem), slice normalisation (normalize_slice) and the           *)
(* collapsing slice view (SeqSlice) over one list-like backing sequence.   *)
(*                                                                         *)
(* The backing sequence is a sequence-like type that applies the protocol  *)
(* to a raw element store (the variable data).  The program holds at most  *)
(* one view at a time (the variable view): V = S[k] replaces it with a     *)
(* view of the backing sequence, V = V[k] with a view of the view.         *)
(***************************************************************************)
EXTENDS Integers, Sequences, FiniteSets, TLC

VARIABLES data, view, depth, last

vars == <<data, view, depth, last>>

(* ------------------------------ bounds -------------------------------- *)

\* Largest length of the backing sequence.
MaxN == 2

\* Largest number of successive slicings that lead from the backing
\* sequence to the held view (S[k1] is 1, S[k1][k2] is 2).
MaxDepth == 2

\* Raw slice bounds and scalar keys range over -MaxIdx .. MaxIdx.
MaxIdx == MaxN + 1

\* Raw slice steps range over -MaxStep .. MaxStep.
MaxStep == MaxN

(* ------------------------------ values -------------------------------- *)

\* Python's None for an unset slice field; a set field x is <<x>>.
None == <<>>

Some(x) == <<x>>

abs(x) == IF x < 0 THEN -x ELSE x

max(a, b) == IF a >= b THEN a ELSE b

min(a, b) == IF a <= b THEN a ELSE b

\* The handle of the backing sequence (a sequence-like object that is no view).
Backing == [kind |-> "backing"]

\* No view held yet.
NoView == [kind |-> "none"]

\* isinstance(x, SeqSlice)
IsSeqSlice(x) == x.kind = "SeqSlice"

(* -------------------------- normalize_slice ---------------------------- *)

\* The result of a call that raised.
Raise(e) == [exc |-> e]

\* A clamped bound counted from the end when negative (lines 75-76, 78-79).
FromEnd(s, n) == IF s < 0 THEN s + n ELSE s

\* normalize_slice's clamp of start (lines 74-76).
ClampStart(start, n) == FromEnd(max(-n, min(start, n - 1)), n)

\* normalize_slice's clamp of stop (lines 77-79).
ClampStop(stop, n) == FromEnd(max(-n - 1, min(stop, n)), n)

\* normalize_slice's adjustment of stop to an exact multiple (lines 84-87).
AdjustStop(start, stop, step) ==
    IF step > 0
    THEN stop + (step - ((stop - start - 1) % step) - 1)
    ELSE stop - ((-step) - ((start - stop - 1) % (-step)) - 1)

\* normalize_slice from line 81 on, start and stop clamped.
NormalizeClamped(start, stop, step) ==
    IF (stop - start) * step <= 0
    THEN [exc |-> "", start |-> 0, stop |-> 0, step |-> 1]
    ELSE [exc |-> "", start |-> start,
          stop |-> AdjustStop(start, stop, step), step |-> step]

\* normalize_slice from line 71 on, the defaults filled in.
NormalizeSet(start, stop, step, n) ==
    IF step = 0
    THEN Raise("ValueError")
    ELSE NormalizeClamped(ClampStart(start, n), ClampStop(stop, n), step)

\* normalize_slice(start, stop, step, n); start, stop, step are None or <<x>>.
normalize_slice(start, stop, step, n) ==
    NormalizeSet(IF start = None THEN 0 ELSE start[1],
                 IF stop = None THEN n ELSE stop[1],
                 IF step = None THEN 1 ELSE step[1], n)

(* ------------------------------ SeqSlice ------------------------------- *)

\* SeqSlice.__len__
SeqSliceLen(v) == abs(v.stop - v.start) \div abs(v.step)

\* len(x) for the backing sequence (n elements) or a view.
LenOf(x, n) == IF IsSeqSlice(x) THEN SeqSliceLen(x) ELSE n

\* SeqSliceTarget without line 102: a view of a view refers to that view.
SeqSliceTarget_Chained(sequence) == sequence

\* The object a new view refers to: a view's own backing object, never the view.
SeqSliceTarget(sequence) ==
    IF IsSeqSlice(sequence) THEN sequence.sequence ELSE sequence

\* The key k, normalised against a view, composed with that view (lines 99-101).
Compose(sequence, k) ==
    [start |-> Some(sequence.start + k.start * sequence.step),
     stop  |-> Some(sequence.start + k.stop * sequence.step),
     step  |-> Some(k.step * sequence.step)]

\* Lines 107-111: the view of target with the triple r, if r is one; knorm
\* keeps the key as it was before the composition.
SeqSliceStore(target, r, k) ==
    IF r.exc # ""
    THEN Raise(r.exc)
    ELSE [exc |-> "",
          view |-> [kind |-> "SeqSlice", sequence |-> target,
                    start |-> r.start, stop |-> r.stop, step |-> r.step],
          knorm |-> k]

\* Line 108: start, stop, step normalised against len(sequence).
SeqSliceNormalize(target, raw, k, n) ==
    SeqSliceStore(target,
                  normalize_slice(raw.start, raw.stop, raw.step, LenOf(target, n)),
                  k)

\* Lines 95-102, with the key normalised against the sliced view as k.
SeqSliceOfView(sequence, k, n) ==
    IF k.exc # ""
    THEN Raise(k.exc)
    ELSE SeqSliceNormalize(SeqSliceTarget(sequence), Compose(sequence, k), k, n)

\* SeqSlice.__init__(sequence, key) over a backing sequence of n elements.
SeqSliceInit(sequence, key, n) ==
    IF IsSeqSlice(sequence)
    THEN SeqSliceOfView(sequence,
                        normalize_slice(key.start, key.stop, key.step,
                                        LenOf(sequence, n)),
                        n)
    ELSE SeqSliceNormalize(SeqSliceTarget(sequence), key, key, n)

(* ------------------------- keys and values ----------------------------- *)

\* isinstance(key, slice)
IsSlice(key) == key.t = "slice"

\* isint(key)
isint(key) == key.t = "int"

Opt(S) == {None} \cup {Some(x) : x \in S}

IntKeys == [t : {"int"}, v : -MaxIdx .. MaxIdx]

SliceKeys == [t : {"slice"}, start : Opt(-MaxIdx .. MaxIdx),
              stop : Opt(-MaxIdx .. MaxIdx), step : Opt(-MaxStep .. MaxStep)]

\* A key that is neither an integer nor a slice.
OtherKeys == {[t |-> "str"]}

Keys == IntKeys \cup SliceKeys \cup OtherKeys

\* The element stored by a scalar assignment.
NewElem == 0

\* A right-hand side that is one element.
Elem(x) == [kind |-> "elem", v |-> x]

\* A Python list of m new elements, the right-hand side of a range assignment.
ListOf(m) == [kind |-> "list", items |-> [i \in 1 .. m |-> NewElem]]

Lists == {ListOf(m) : m \in 0 .. MaxN + 1}

IsList(value) == value.kind = "list"

\* len(value) of a right-hand side: a list or a view.
LenValue(value, n) == IF IsList(value) THEN Len(value.items) ELSE SeqSliceLen(value)

(* ----------------------- basic_getitem (scalar) ------------------------ *)

\* GetOutOfRange with the lower bound off by one: -n is refused.
GetOutOfRange_OffByOne(key, n) == key <= -n \/ key >= n

\* The bounds check of basic_getitem (line 18).
GetOutOfRange(key, n) == key < -n \/ key >= n

\* The negative-index resolution of basic_getitem (lines 22-23).
GetResolve(key, n) == IF key < 0 THEN n + key ELSE key

\* One call of an object's own element accessor.
Call(obj, key) == [obj |-> obj, key |-> key]

\* The outcome r of what an accessor did, with the call of the accessor.
Called(self, k, r) == [r EXCEPT !.calls = <<Call(self, k)>> \o r.calls]

RECURSIVE getitem_int(_, _, _)
\* f(self, k), k resolved: SeqSlice.__getitem__ reads its sequence at
\* start + k*step (line 118); the backing sequence reads its store.
GetAccess(self, k, d) ==
    IF IsSeqSlice(self)
    THEN Called(self, k, getitem_int(self.sequence, self.start + k * self.step, d))
    ELSE [exc |-> "", ret |-> Some(d[k + 1]), calls |-> <<Call(self, k)>>]

\* Lines 18-25 for an object of n elements.
GetChecked(self, key, n, d) ==
    IF GetOutOfRange(key, n)
    THEN [exc |-> "IndexError", ret |-> None, calls |-> <<>>]
    ELSE GetAccess(self, GetResolve(key, n), d)

\* self[key] for an integer key, on the store d: the outcome (exc), the
\* element returned (ret) and the accessor calls made, outermost first.
getitem_int(self, key, d) == GetChecked(self, key, LenOf(self, Len(d)), d)

(* ----------------------- basic_setitem (scalar) ------------------------ *)

\* The bounds check of basic_setitem (line 49).
SetOutOfRange(key, n) == key < -n \/ key >= n

\* The negative-index resolution of basic_setitem (lines 53-54).
SetResolve(key, n) == IF key < 0 THEN n + key ELSE key

RECURSIVE setitem_int(_, _, _, _)
\* f(self, k, value), k resolved: SeqSlice.__setitem__ assigns to its
\* sequence at start + k*step (line 122); the backing sequence to its store.
SetAccess(self, k, value, d) ==
    IF IsSeqSlice(self)
    THEN Called(self, k,
                setitem_int(self.sequence, self.start + k * self.step, value, d))
    ELSE [exc |-> "", data |-> [d EXCEPT ![k + 1] = value],
          calls |-> <<Call(self, k)>>]

\* Lines 49-56 for an object of n elements.
SetChecked(self, key, value, n, d) ==
    IF SetOutOfRange(key, n)
    THEN [exc |-> "IndexError", data |-> d, calls |-> <<>>]
    ELSE SetAccess(self, SetResolve(key, n), value, d)

\* self[key] = value for an integer key, on the store d: the outcome, the
\* store afterwards and the accessor calls made, outermost first.
setitem_int(self, key, value, d) ==
    SetChecked(self, key, value, LenOf(self, Len(d)), d)

(* ------------------- basic_setitem (range assignment) ------------------ *)

\* The next item of a list at position i, if any.
ListItem(items, i) ==
    IF i < Len(items)
    THEN [done |-> FALSE, v |-> items[i + 1]]
    ELSE [done |-> TRUE, v |-> NewElem]

\* The next item of a view, read as r: IndexError ends the iteration.
ViewItem(r) ==
    IF r.exc = "IndexError"
    THEN [done |-> TRUE, v |-> NewElem]
    ELSE [done |-> FALSE, v |-> r.ret[1]]

\* The next item of enumerate(value) at position i on the store d: a list
\* yields its i-th item; a view is iterated by indexing it from 0 until it
\* raises IndexError (Sequence.__iter__).
NextItem(value, i, d) ==
    IF IsList(value)
    THEN ListItem(value.items, i)
    ELSE ViewItem(getitem_int(value, i, d))

\* The position of the loop's next assignment after the one at i.
NextIndex(i) == i + 1

\* One assignment slice_view[i] = v found the store d and had the outcome w.
Step(i, v, d, w) ==
    [i |-> i, v |-> v, pre |-> d, exc |-> w.exc, calls |-> w.calls]

RECURSIVE AssignLoop(_, _, _, _, _)
\* Line 46 had the outcome w: an exception leaves the loop, otherwise the
\* loop goes on at the next position.
AssignNext(slice_view, value, i, st, w) ==
    IF w.exc # ""
    THEN [exc |-> w.exc, data |-> w.data, steps |-> st]
    ELSE AssignLoop(slice_view, value, NextIndex(i), w.data, st)

\* Line 46, slice_view[i] = v, with the outcome w.
AssignStep(slice_view, value, i, v, d, steps, w) ==
    AssignNext(slice_view, value, i, Append(steps, Step(i, v, d, w)), w)

\* Lines 45-46 with the next item it of the iteration.
AssignItem(slice_view, value, i, d, steps, it) ==
    IF it.done
    THEN [exc |-> "", data |-> d, steps |-> steps]
    ELSE AssignStep(slice_view, value, i, it.v, d, steps,
                    setitem_int(slice_view, i, it.v, d))

\* for i, v in enumerate(value): slice_view[i] = v   (lines 45-46), from
\* position i on the store d; steps lists the assignments made so far, each
\* with the store it found.
AssignLoop(slice_view, value, i, d, steps) ==
    AssignItem(slice_view, value, i, d, steps, NextItem(value, i, d))

\* LengthMismatch without the check: any value is assigned as far as it goes.
LengthMismatch_Unchecked(slice_view, value, n) == FALSE

\* The length check of a range assignment (line 40).
LengthMismatch(slice_view, value, n) ==
    SeqSliceLen(slice_view) # LenValue(value, n)

\* The outcome r of the loop over slice_view.
Assigned(slice_view, r) ==
    [exc |-> r.exc, data |-> r.data, steps |-> r.steps, sv |-> slice_view]

\* Lines 40-46 with the view slice_view.
AssignChecked(slice_view, value, d) ==
    IF LengthMismatch(slice_view, value, Len(d))
    THEN [exc |-> "ValueError", data |-> d, steps |-> <<>>, sv |-> slice_view]
    ELSE Assigned(slice_view, AssignLoop(slice_view, value, 0, d, <<>>))

\* Lines 38-46 with c, the outcome of SeqSlice(self, key).
AssignView(c, value, d) ==
    IF c.exc # ""
    THEN [exc |-> c.exc, data |-> d, steps |-> <<>>, sv |-> NoView]
    ELSE AssignChecked(c.view, value, d)

\* self[key] = value for a slice key (lines 37-46) on the store d.
setslice(self, key, value, d) ==
    AssignView(SeqSliceInit(self, key, Len(d)), value, d)

(* ------------------------ the protocol wrappers ------------------------ *)

\* What the caller of an operation observes; Idle when no call is recorded.
Idle == [op |-> "idle", self |-> NoView, key |-> [t |-> "none"],
         value |-> NoView, exc |-> "", ret |-> None, out |-> NoView,
         knorm |-> None, calls |-> <<>>, steps |-> <<>>, before |-> <<>>]

\* What a slice read with the outcome c of SeqSlice(self, key) shows.
SliceObs(c) ==
    IF c.exc # ""
    THEN [Idle EXCEPT !.exc = c.exc]
    ELSE [Idle EXCEPT !.out = c.view, !.knorm = c.knorm]

\* What a scalar read or write with the outcome r shows.
ScalarObs(r) == [Idle EXCEPT !.exc = r.exc, !.calls = r.calls]

\* What a scalar read with the outcome r shows.
ReadObs(r) == [ScalarObs(r) EXCEPT !.ret = r.ret]

\* What a range assignment with the outcome r shows.
AssignObs(r) == [Idle EXCEPT !.exc = r.exc, !.out = r.sv, !.steps = r.steps]

\* basic_getitem's getitem(self, key) on the store d (lines 13-30).
getitem(self, key, d) ==
    IF IsSlice(key)
    THEN SliceObs(SeqSliceInit(self, key, Len(d)))
    ELSE IF isint(key)
         THEN ReadObs(getitem_int(self, key.v, d))
         ELSE [Idle EXCEPT !.exc = "TypeError"]

\* The store and the observation after an assignment with the outcome r.
Stored(r, obs) == [data |-> r.data, obs |-> obs]

\* basic_setitem's setitem(self, key, value) with a slice key, outcome r.
SetSliceDone(r) == Stored(r, AssignObs(r))

\* basic_setitem's setitem(self, key, value) with an integer key, outcome r.
SetItemDone(r) == Stored(r, ScalarObs(r))

\* basic_setitem's setitem(self, key, value) on the store d (lines 36-61).
setitem(self, key, value, d) ==
    IF IsSlice(key)
    THEN SetSliceDone(setslice(self, key, value, d))
    ELSE IF isint(key)
         THEN SetItemDone(setitem_int(self, key.v, value.v, d))
         ELSE [data |-> d, obs |-> [Idle EXCEPT !.exc = "TypeError"]]

(* ------------------------------ the machine ---------------------------- *)

\* The sequence-like objects the program holds: the backing sequence and
\* the view, if any.
Objects == {Backing} \cup (IF IsSeqSlice(view) THEN {view} ELSE {})

\* The right-hand sides tried with a key: a list or the held view for a
\* slice key, one element otherwise.
Values(key) ==
    IF IsSlice(key)
    THEN Lists \cup (IF IsSeqSlice(view) THEN {view} ELSE {})
    ELSE {Elem(NewElem)}

Init ==
    /\ \E n \in 0 .. MaxN : data = [i \in 1 .. n |-> i]
    /\ view = NoView
    /\ depth = 0
    /\ last = Idle

\* x = self[key] had the outcome r; a view that results becomes the held view.
GetitemDone(self, key, r) ==
    /\ last' = [r EXCEPT !.op = "getitem", !.self = self, !.key = key,
                         !.before = data]
    /\ view' = IF IsSeqSlice(r.out) THEN r.out ELSE view
    /\ depth' = IF IsSeqSlice(r.out)
                THEN (IF IsSeqSlice(self) THEN depth + 1 ELSE 1)
                ELSE depth
    /\ UNCHANGED data

\* x = self[key]
Getitem(self, key) ==
    /\ last.op = "idle"
    /\ (IsSlice(key) /\ IsSeqSlice(self)) => depth < MaxDepth
    /\ GetitemDone(self, key, getitem(self, key, data))

\* self[key] = value had the outcome r.
SetitemDone(self, key, value, r) ==
    /\ last' = [r.obs EXCEPT !.op = "setitem", !.self = self, !.key = key,
                             !.value = value, !.before = data]
    /\ data' = r.data
    /\ UNCHANGED <<view, depth>>

\* self[key] = value
Setitem(self, key, value) ==
    /\ last.op = "idle"
    /\ SetitemDone(self, key, value, setitem(self, key, value, data))

\* The caller is done with the outcome of the call.
Return ==
    /\ last.op # "idle"
    /\ last' = Idle
    /\ UNCHANGED <<data, view, depth>>

\* No call is recorded: the program is free to make one.
Ready == last.op = "idle"

\* The program reads some object it holds at some key.
CallGetitem == Ready /\ \E self \in Objects, key \in Keys : Getitem(self, key)

\* The program assigns through some object it holds at some key.
CallSetitem ==
    Ready /\ \E self \in Objects, key \in Keys : \E value \in Values(key) :
                Setitem(self, key, value)

Next == CallGetitem \/ CallSetitem \/ Return

Spec == Init /\ [][Next]_vars

\* The program assigns one element through some object it holds.
CallSetitemScalar ==
    Ready /\ \E self \in Objects, key \in IntKeys \cup OtherKeys :
                Setitem(self, key, Elem(NewElem))

NextScalar == CallGetitem \/ CallSetitemScalar \/ Return

\* The program without range assignments: slicing, and scalar reads and writes.
SpecScalar == Init /\ [][NextScalar]_vars

\* The store still holds the elements it was constructed with.
Fresh == data = [i \in 1 .. Len(data) |-> i]

\* The program assigns a range of some object it holds.
CallSetslice ==
    Ready /\ \E self \in Objects, key \in SliceKeys :
                \E value \in Values(key) : Setitem(self, key, value)

\* A read or a slicing of the store as constructed.
FreshGetitem == Fresh /\ CallGetitem

\* A range assignment to the store as constructed.
FreshSetslice == Fresh /\ CallSetslice

NextFresh == FreshGetitem \/ FreshSetslice \/ Return

\* The program up to its first range assignment that changes the store:
\* slicing and reads of the store as constructed, then range assignments.
SpecFresh == Init /\ [][NextFresh]_vars

(* --------------------- reference notions for the claims ---------------- *)

\* Length of the backing sequence when the recorded call was made.
N == Len(last.before)

\* The recorded call is x = self[key] with a slice key.
SliceCall == last.op = "getitem" /\ IsSlice(last.key)

\* The recorded call is a scalar read or write.
ScalarCall == last.op \in {"getitem", "setitem"} /\ isint(last.key)

\* The recorded call is self[key] = value with a slice key whose view was built.
RangeAssign == last.op = "setitem" /\ IsSlice(last.key) /\ IsSeqSlice(last.out)

\* The absolute position a view gives its index i.
Position(v, i) == v.start + i * v.step

\* Python's S[x] on a plain list d: negative positions count from the end,
\* positions outside [-n, n) raise IndexError.
ListRead(d, x) ==
    IF x >= Len(d) \/ x < -Len(d)
    THEN [exc |-> "IndexError", ret |-> None]
    ELSE [exc |-> "", ret |-> Some(d[(IF x < 0 THEN x + Len(d) ELSE x) + 1])]

\* What a read of object x at index i gives on the store d.
Read(x, i, d) ==
    LET r == getitem_int(x, i, d) IN [exc |-> r.exc, ret |-> r.ret]

\* Python's slice.indices: the first index and the limit of start:stop:step
\* over n elements.
PyStart(start, step, n) ==
    IF start = None THEN (IF step < 0 THEN n - 1 ELSE 0)
    ELSE IF start[1] < 0
         THEN max(start[1] + n, IF step < 0 THEN -1 ELSE 0)
         ELSE min(start[1], IF step < 0 THEN n - 1 ELSE n)

PyStop(stop, step, n) ==
    IF stop = None THEN (IF step < 0 THEN -1 ELSE n)
    ELSE IF stop[1] < 0
         THEN max(stop[1] + n, IF step < 0 THEN -1 ELSE 0)
         ELSE min(stop[1], IF step < 0 THEN n - 1 ELSE n)

RECURSIVE CountFrom(_, _, _)
\* The indices i, i + step, ... before stop, counted one by one.
CountFrom(i, stop, step) ==
    IF (step > 0 /\ i < stop) \/ (step < 0 /\ i > stop)
    THEN 1 + CountFrom(i + step, stop, step)
    ELSE 0

\* How many indices of an n-element sequence the raw slice key selects.
PyCount(key, n) ==
    LET step == IF key.step = None THEN 1 ELSE key.step[1]
    IN  CountFrom(PyStart(key.start, step, n), PyStop(key.stop, step, n), step)

\* The step of a raw slice key, with its default.
StepOf(key) == IF key.step = None THEN 1 ELSE key.step[1]

\* The raw keys [::-1] and [::1].
Reversed == [t |-> "slice", start |-> None, stop |-> None, step |-> Some(-1)]

Forward == [t |-> "slice", start |-> None, stop |-> None, step |-> Some(1)]

\* View v has n elements and reads, element by element, as the store d.
SameAsStore(v, d) ==
    /\ SeqSliceLen(v) = Len(d)
    /\ \A i \in 0 .. Len(d) - 1 : Read(v, i, d) = [exc |-> "", ret |-> Some(d[i + 1])]

(* ------------------------------- claims -------------------------------- *)

\* C1: a slice start:stop of the backing sequence with a positive or unset
\* step and n <= start <= stop raises nothing and gives the empty view with
\* the triple (0, 0, 1).
C1_OutsideSliceIsEmpty ==
    (/\ SliceCall /\ last.self = Backing
     /\ StepOf(last.key) > 0
     /\ last.key.start # None /\ last.key.stop # None
     /\ N <= last.key.start[1] /\ last.key.start[1] <= last.key.stop[1])
    => /\ last.exc = ""
       /\ <<last.out.start, last.out.stop, last.out.step>> = <<0, 0, 1>>
       /\ SeqSliceLen(last.out) = 0

\* C2: S[::k] with k < 0 over n >= 1 elements is not empty and starts at
\* S[n-1]; S[::-1] has n elements and its i-th is S[n-1-i].
C2_NegativeStepReverses ==
    (/\ SliceCall /\ last.self = Backing /\ N >= 1
     /\ last.key.start = None /\ last.key.stop = None
     /\ StepOf(last.key) < 0)
    => /\ last.exc = ""
       /\ SeqSliceLen(last.out) > 0
       /\ Read(last.out, 0, data) = [exc |-> "", ret |-> Some(data[N])]
       /\ StepOf(last.key) = -1 =>
             /\ SeqSliceLen(last.out) = N
             /\ \A i \in 0 .. N - 1 :
                   Read(last.out, i, data) = [exc |-> "", ret |-> Some(data[N - i])]

\* C3: over a non-empty S, S[::1] and S[::-1][::-1] have the length of S and
\* read as S does, element by element.
C3_FullSliceRoundTrip ==
    /\ (SliceCall /\ last.self = Backing /\ N >= 1 /\ last.key = Forward)
          => (last.exc = "" /\ SameAsStore(last.out, data))
    /\ (/\ SliceCall /\ N >= 1 /\ last.key = Reversed
        /\ last.self = SeqSliceInit(Backing, Reversed, N).view)
          => (last.exc = "" /\ SameAsStore(last.out, data))

\* C4: the triple normalize_slice gives a raw slice with a non-zero step
\* spans an exact multiple of its step, and its length is the number of
\* indices the raw slice selects.
C4_NormalizationExact ==
    (SliceCall /\ last.self = Backing /\ StepOf(last.key) # 0)
    => /\ last.exc = ""
       /\ abs(last.out.stop - last.out.start) % abs(last.out.step) = 0
       /\ SeqSliceLen(last.out) = PyCount(last.key, N)

\* C5: every view refers to the backing sequence itself, never to a view,
\* and a read of a view at a valid index gives what S[start + i*step] gives.
C5_DepthOne ==
    /\ IsSeqSlice(view) => view.sequence = Backing
    /\ IsSeqSlice(last.out) => last.out.sequence = Backing
    /\ (/\ last.op = "getitem" /\ isint(last.key) /\ IsSeqSlice(last.self)
        /\ ~GetOutOfRange(last.key.v, SeqSliceLen(last.self)))
       => LET m == SeqSliceLen(last.self)
              i == IF last.key.v < 0 THEN last.key.v + m ELSE last.key.v
              r == ListRead(data, Position(last.self, i))
          IN  last.exc = r.exc /\ last.ret = r.ret

\* A read of a view of a view (built by two slicings) that returned an element.
C5_Witness ==
    /\ last.op = "getitem" /\ isint(last.key) /\ IsSeqSlice(last.self)
    /\ depth = 2 /\ last.self.step < 0
    /\ last.exc = "" /\ last.ret # None

\* The element a right-hand side holds at index i on the store d.
ValueAt(value, i, d) ==
    IF IsList(value) THEN value.items[i + 1] ELSE d[Position(value, i) + 1]

RECURSIVE RefAssign(_, _, _, _, _)
\* The store after the assignments dest[i] = value[i] for i, i+1, ..., m-1 in
\* this order, each value[i] read from the store the earlier ones left.
RefAssign(dest, value, i, m, d) ==
    IF i >= m THEN d
    ELSE RefAssign(dest, value, i + 1, m,
                   [d EXCEPT ![Position(dest, i) + 1] = ValueAt(value, i, d)])

\* C6: a range assignment whose view and value both have m elements assigns
\* at i = 0, 1, ..., m-1 in this order, and what it assigns at i is value[i]
\* read after the assignments before i.
C6_AscendingLazyAssignment ==
    (RangeAssign /\ SeqSliceLen(last.out) = LenValue(last.value, N))
    => LET m == SeqSliceLen(last.out)
       IN  /\ last.exc = ""
           /\ Len(last.steps) = m
           /\ \A j \in 1 .. m :
                 /\ last.steps[j].i = j - 1
                 /\ last.steps[j].exc = ""
                 /\ last.steps[j].pre =
                       RefAssign(last.out, last.value, 0, j - 1, last.before)
                 /\ last.steps[j].v = ValueAt(last.value, j - 1, last.steps[j].pre)
           /\ data = RefAssign(last.out, last.value, 0, m, last.before)

\* C6 over a non-empty backing sequence.
C6_OverNonEmpty == N >= 1 => C6_AscendingLazyAssignment

\* S[0:4] = S[1:5] over S = [1, 2, 3, 4, 5] leaves [2, 3, 4, 5, 5].
C6_ShiftLeft ==
    LET S == <<1, 2, 3, 4, 5>>
        k04 == [t |-> "slice", start |-> Some(0), stop |-> Some(4), step |-> None]
        k15 == [t |-> "slice", start |-> Some(1), stop |-> Some(5), step |-> None]
    IN  setitem(Backing, k04, SeqSliceInit(Backing, k15, 5).view, S).data
           = <<2, 3, 4, 5, 5>>

\* An overlapping assignment through the held view in which a later read
\* sees an earlier write.
C6_OverlapSeen ==
    /\ RangeAssign /\ last.exc = "" /\ Len(last.steps) = 2
    /\ IsSeqSlice(last.value)
    /\ last.steps[2].v # ValueAt(last.value, 1, last.before)

\* C7: a range assignment whose value has another length than the view
\* raises ValueError and assigns nothing: the store is as it was.
C7_MismatchAssignsNothing ==
    (RangeAssign /\ SeqSliceLen(last.out) # LenValue(last.value, N))
    => /\ last.exc = "ValueError"
       /\ last.steps = <<>>
       /\ data = last.before

\* A one-element list refused for a two-element view.
C7_Witness ==
    /\ RangeAssign /\ SeqSliceLen(last.out) = 2
    /\ IsList(last.value) /\ Len(last.value.items) = 1
    /\ last.exc = "ValueError"

\* The calls the recorded operation made of the accessor of its own object.
OwnCalls == SelectSeq(last.calls, LAMBDA c : c.obj = last.self)

\* C8: a scalar read or write of an object of n elements raises IndexError,
\* without a call of the object's accessor and without a change of the
\* store, exactly when key < -n or key >= n; otherwise it calls the accessor
\* once, with key + n for a negative key and key otherwise, which is in
\* [0, n); a read at i in [-n, -1] gives what the read at i + n gives.
C8_ScalarBoundsChecked ==
    ScalarCall
    => LET n == LenOf(last.self, N)
           key == last.key.v
       IN  IF key < -n \/ key >= n
           THEN /\ last.exc = "IndexError"
                /\ last.calls = <<>>
                /\ data = last.before
           ELSE /\ ~(last.exc = "IndexError" /\ last.calls = <<>>)
                /\ Len(OwnCalls) = 1
                /\ OwnCalls[1].key = (IF key < 0 THEN key + n ELSE key)
                /\ OwnCalls[1].key \in 0 .. n - 1
                /\ OwnCalls[1] = last.calls[1]
                /\ (last.op = "getitem" /\ key < 0)
                      => Read(last.self, key + n, last.before)
                            = [exc |-> last.exc, ret |-> last.ret]

\* A read of a two-element view at -1, which returned an element.
C8_Witness ==
    /\ last.op = "getitem" /\ isint(last.key) /\ last.key.v = -1
    /\ IsSeqSlice(last.self) /\ SeqSliceLen(last.self) = 2
    /\ last.exc = "" /\ Len(last.calls) = 2

\* C9: slicing a view V1 with a key that normalises to (ks, kp, kt) against
\* len(V1) gives a view of abs(kp - ks) // abs(kt) elements whose i-th
\* element is V1[ks + i*kt].
C9_FlatEqualsChained ==
    (SliceCall /\ IsSeqSlice(last.self) /\ last.exc = "")
    => LET k == last.knorm
           m == abs(k.stop - k.start) \div abs(k.step)
       IN  /\ SeqSliceLen(last.out) = m
           /\ \A i \in 0 .. m - 1 :
                 Read(last.out, i, data) = Read(last.self, k.start + i * k.step, data)

\* C10: a view has at most n elements and gives each of its indices a
\* position in [0, n) of the backing sequence.
C10_PositionsInRange ==
    IsSeqSlice(view)
    => /\ SeqSliceLen(view) <= Len(data)
       /\ \A i \in 0 .. SeqSliceLen(view) - 1 :
             Position(view, i) \in 0 .. Len(data) - 1

\* C10 over a non-empty backing sequence.
C10_OverNonEmpty == Len(data) >= 1 => C10_PositionsInRange

====
